---- MODULE Spec2Model ----
(***************************************************************************)
(* Model of the SEO redundant-link cleaner (src/app.js).                   *)
(*                                                                         *)
(* Five specifications share the module:                                   *)
(*   SpecTpl  the template guard (protectTemplateSyntax and                *)
(*            restoreTemplateSyntax) run on bounded input strings;         *)
(*   SpecUrl  normalizeUrl run on pairs of hrefs built from components;    *)
(*   Spec     the session: handleAnalyze, handleAutoStrip, handleKeepAll,  *)
(*            toggleLink, handleReset and the preview frame;               *)
(*   SpecReject   the session on short articles, with the user also        *)
(*            blanking the textarea;                                       *)
(*   SpecDensity  handleAnalyze on articles with long paragraphs.          *)
(* Strings are TLA+ strings, read character by character with SubSeq.      *)
(***************************************************************************)
EXTENDS Integers, Sequences, FiniteSets, TLC

VARIABLES
    tplPc,      \* SpecTpl: "idle" | "input" | "protected" | "restored"
    tplIn,      \* SpecTpl: the input string h
    tplProt,    \* SpecTpl: result of protectTemplateSyntax(h)
    tplOut,     \* SpecTpl: result of restoreTemplateSyntax
    urlPc,      \* SpecUrl: "idle" | "input" | "done"
    urlA,       \* SpecUrl: components of the first href
    urlB,       \* SpecUrl: components of the second href
    keyA,       \* SpecUrl: normalizeUrl of the first href
    keyB,       \* SpecUrl: normalizeUrl of the second href
    article,    \* Spec: the article the user pastes, [html, domain]
    input,      \* Spec: value of the #html-input textarea, [text, anchors]
    originalHtml,     \* state.originalHtml
    links,            \* state.links
    groups,           \* state.groups
    warnings,         \* state.warnings
    stats,            \* state.stats
    targetSelfCount,  \* state.targetSelfCount
    previewReady,     \* state.previewReady
    frame,      \* Spec: the preview iframe, [doc, loaded]
    cleanOutput,      \* Spec: value of the #clean-output textarea
    cleanBy,    \* Spec: which generator wrote cleanOutput last
    lastOp,     \* Spec: history, the handler that ran last ("rejected": handleAnalyze refused the input)
    firstStrip, \* Spec: history, keep flags as handleAnalyze's auto-strip left them
    beforeStrip \* Spec: history, keep flags handleAutoStrip found when it ran last

tplVars == <<tplPc, tplIn, tplProt, tplOut>>
urlVars == <<urlPc, urlA, urlB, keyA, keyB>>
stateVars == <<originalHtml, links, groups, warnings, stats, targetSelfCount, previewReady>>
histVars == <<lastOp, firstStrip, beforeStrip>>
appVars == <<article, input, stateVars, frame, cleanOutput, cleanBy, histVars>>
vars == <<tplVars, urlVars, appVars>>

-----------------------------------------------------------------------------
(* String helpers: the JavaScript String methods the source uses.          *)

Char(s, i) == SubSeq(s, i, i)

StartsWith(s, p) == Len(s) >= Len(p) /\ SubSeq(s, 1, Len(p)) = p

EndsWith(s, p) == Len(s) >= Len(p) /\ SubSeq(s, Len(s) - Len(p) + 1, Len(s)) = p

\* s.slice(i) with a 1-based start
Drop(s, n) == SubSeq(s, n + 1, Len(s))

\* position of the first character of s that lies in cs, 0 when there is none
FirstOf(s, cs) ==
    LET hits == {i \in 1..Len(s) : Char(s, i) \in cs}
    IN  IF hits = {} THEN 0 ELSE CHOOSE i \in hits : \A j \in hits : i <= j

\* variant: the href is not cut at the separator
SplitNone(s, c) == s

\* s.split(c)[0]
SplitFirst(s, c) ==
    LET i == FirstOf(s, {c})
    IN  IF i = 0 THEN s ELSE SubSeq(s, 1, i - 1)

\* s.includes(sub)
Includes(s, sub) ==
    \E i \in 1..(Len(s) + 1) : i + Len(sub) - 1 <= Len(s) /\ SubSeq(s, i, i + Len(sub) - 1) = sub

UpperChars == "ABCDEFGHIJKLMNOPQRSTUVWXYZ"
LowerChars == "abcdefghijklmnopqrstuvwxyz"

LowerChar(c) ==
    LET i == FirstOf(UpperChars, {c})
    IN  IF i = 0 THEN c ELSE Char(LowerChars, i)

RECURSIVE toLowerCase(_)
toLowerCase(s) == IF s = "" THEN "" ELSE LowerChar(Head(s)) \o toLowerCase(Tail(s))

WhiteSpace == {" ", "\t", "\n"}

RECURSIVE trimStart(_)
trimStart(s) == IF s # "" /\ Head(s) \in WhiteSpace THEN trimStart(Tail(s)) ELSE s

RECURSIVE trimEnd(_)
trimEnd(s) ==
    IF s # "" /\ Char(s, Len(s)) \in WhiteSpace THEN trimEnd(SubSeq(s, 1, Len(s) - 1)) ELSE s

trim(s) == trimEnd(trimStart(s))

Digits == "0123456789"

IsDigit(c) == FirstOf(Digits, {c}) # 0

\* parseInt of a non-empty run of decimal digits
RECURSIVE parseInt(_)
parseInt(d) ==
    IF d = "" THEN 0
    ELSE 10 * parseInt(SubSeq(d, 1, Len(d) - 1)) + (FirstOf(Digits, {Char(d, Len(d))}) - 1)

\* the decimal text of a natural number, as a template literal prints it
RECURSIVE numToString(_)
numToString(n) ==
    IF n < 10 THEN Char(Digits, n + 1)
    ELSE numToString(n \div 10) \o Char(Digits, (n % 10) + 1)

-----------------------------------------------------------------------------
(* Template guard                                                          *)

TokenPrefix == "__SRLC_TPL_"
TokenSuffix == "__"

Token(idx) == TokenPrefix \o numToString(idx) \o TokenSuffix

\* Length of the match of /\{\{(?:[^}]|\}(?!\}))*\}\}/ at the start of s, 0
\* when it does not match there.  The body can consume any character but a
\* "}" that is followed by "}", so the match ends at the first "}}" found at
\* or after the third character.
TemplateMatchLen(s) ==
    IF ~StartsWith(s, "{{") THEN 0
    ELSE LET ends == {j \in 3..(Len(s) - 1) : SubSeq(s, j, j + 1) = "}}"}
         IN  IF ends = {} THEN 0
             ELSE (CHOOSE j \in ends : \A k \in ends : j <= k) + 1

RECURSIVE ProtectScan(_, _, _)
ProtectScan(s, acc, placeholders) ==
    IF s = "" THEN [html |-> acc, placeholders |-> placeholders]
    ELSE LET m == TemplateMatchLen(s)
         IN  IF m > 0
             THEN ProtectScan(Drop(s, m), acc \o Token(Len(placeholders)),
                              Append(placeholders, SubSeq(s, 1, m)))
             ELSE ProtectScan(Tail(s), acc \o Head(s), placeholders)

protectTemplateSyntax(html) == ProtectScan(html, "", <<>>)

\* the run of digits at the start of s
RECURSIVE DigitRun(_)
DigitRun(s) == IF s # "" /\ IsDigit(Head(s)) THEN Head(s) \o DigitRun(Tail(s)) ELSE ""

\* the digits of a match of /__SRLC_TPL_(\d+)__/ at the start of s, "" when
\* it does not match there
TokenMatchDigits(s) ==
    IF ~StartsWith(s, TokenPrefix) THEN ""
    ELSE LET d == DigitRun(Drop(s, Len(TokenPrefix)))
         IN  IF d # "" /\ StartsWith(Drop(s, Len(TokenPrefix) + Len(d)), TokenSuffix)
             THEN d ELSE ""

\* placeholders[i] converted to a string by String.prototype.replace
PlaceholderText(placeholders, i) ==
    IF i + 1 \in 1..Len(placeholders) THEN placeholders[i + 1] ELSE "undefined"

RECURSIVE RestoreScan(_, _, _)
RestoreScan(s, acc, placeholders) ==
    IF s = "" THEN acc
    ELSE LET d == TokenMatchDigits(s)
         IN  IF d # ""
             THEN RestoreScan(Drop(s, Len(TokenPrefix) + Len(d) + Len(TokenSuffix)),
                              acc \o PlaceholderText(placeholders, parseInt(d)),
                              placeholders)
             ELSE RestoreScan(Tail(s), acc \o Head(s), placeholders)

restoreTemplateSyntax(html, placeholders) ==
    IF Len(placeholders) = 0 THEN html ELSE RestoreScan(html, "", placeholders)

-----------------------------------------------------------------------------
(* URL normalizer                                                          *)
(* A key is <<k>> for the string k; null is the empty tuple.               *)

NoKey == <<>>

\* new URL(href, 'https://placeholder.com') for an href that starts with
\* "http://", "https://" or "//" and is made of letters, digits, ".", "/",
\* "?", "#", "=": the parser skips every slash after the scheme, reads the
\* host up to the next "/", "?" or "#" (an empty host is a TypeError), and
\* the pathname is what follows up to "?" or "#", "/" when that is empty.
RECURSIVE SkipSlashes(_)
SkipSlashes(s) == IF s # "" /\ Head(s) = "/" THEN SkipSlashes(Tail(s)) ELSE s

AfterScheme(href) ==
    IF StartsWith(href, "http://") THEN Drop(href, 5)
    ELSE IF StartsWith(href, "https://") THEN Drop(href, 6)
    ELSE href

ParseUrl(href) ==
    LET auth    == SkipSlashes(AfterScheme(href))
        hostEnd == FirstOf(auth, {"/", "?", "#"})
        host    == IF hostEnd = 0 THEN auth ELSE SubSeq(auth, 1, hostEnd - 1)
        tail    == IF hostEnd = 0 THEN "" ELSE Drop(auth, hostEnd - 1)
        pathEnd == FirstOf(tail, {"?", "#"})
        path    == IF pathEnd = 0 THEN tail ELSE SubSeq(tail, 1, pathEnd - 1)
    IN  [ok       |-> host # "",
         hostname |-> toLowerCase(host),
         pathname |-> IF path = "" THEN "/" ELSE path]

IsAbsoluteForm(href) ==
    StartsWith(href, "http://") \/ StartsWith(href, "https://") \/ StartsWith(href, "//")

\* variant: the trailing slash is kept
FinishPathKeepSlash(path0, href) ==
    IF toLowerCase(path0) # "" THEN toLowerCase(path0) ELSE toLowerCase(href)

\* lines 57-59: lower-case, strip one trailing slash, fall back to the href
FinishPath(path0, href) ==
    LET path1 == toLowerCase(path0)
        path2 == IF Len(path1) > 1 /\ EndsWith(path1, "/")
                 THEN SubSeq(path1, 1, Len(path1) - 1) ELSE path1
    IN  IF path2 # "" THEN path2 ELSE toLowerCase(href)

normalizeUrl(href0) ==
    IF href0 = "" THEN NoKey
    ELSE LET href == trim(href0)
         IN  IF \/ href = ""
                \/ href = "#"
                \/ StartsWith(href, "javascript:")
                \/ StartsWith(href, "mailto:")
                \/ StartsWith(href, "tel:")
             THEN NoKey
             ELSE IF IsAbsoluteForm(href)
                  THEN IF ParseUrl(href).ok
                       THEN <<FinishPath(ParseUrl(href).pathname, href)>>
                       \* catch: the URL constructor threw
                       ELSE <<SplitFirst(SplitFirst(toLowerCase(href), "?"), "#")>>
                  ELSE <<FinishPath(SplitFirst(SplitFirst(href, "?"), "#"), href)>>

-----------------------------------------------------------------------------
(* Documents                                                               *)
(* A document is the sequence of its <a href> elements in document order.  *)
(* An anchor holds what the program reads of it: the href, class and        *)
(* target attributes, whether it carries a data-srlc-remove attribute       *)
(* already, its parent's class, whether its content is an <img>, its text   *)
(* content, the tag names of its ancestors (nearest first) and the number   *)
(* of the <p> it lies in (0: none).  Documents hold no {{...}} expression;  *)
(* the template guard is checked on strings under SpecTpl.                  *)

Anchor(href, cls, parentCls, img, text, target, marked, anc, para) ==
    [href |-> href, cls |-> cls, parentCls |-> parentCls, img |-> img, text |-> text,
     target |-> target, marked |-> marked, anc |-> anc, para |-> para]

\* the anchors documents are made of; no href normalizes to the name of a
\* property of Object.prototype (groups is a plain object, line 154)
BuyText    == Anchor("/product", "", "", FALSE, "Buy the Widget", "", FALSE, <<"P">>, 1)
ImageLink  == Anchor("/product", "", "", TRUE, "", "_self", FALSE, <<"DIV">>, 0)
ReadGuide  == Anchor("/guide", "", "", FALSE, "Read the guide", "", FALSE, <<"P">>, 1)
FullGuide  == Anchor("/guide/", "", "", FALSE, "Full guide here", "_self", FALSE, <<"H2">>, 0)
ShoutGuide == Anchor("https://x.com/guide?x=1#y", "", "", FALSE, " READ THE GUIDE ", "",
                     TRUE, <<"P">>, 1)
ScriptLink == Anchor("javascript:void(0)", "", "", FALSE, "Menu", "_self", FALSE, <<"LI">>, 0)
ButtonLink == Anchor("/guide", "btn btn-primary", "", FALSE, "Full guide here", "", FALSE,
                     <<"DIV">>, 0)

AnchorPool == {BuyText, ImageLink, ReadGuide, FullGuide, ShoutGuide, ScriptLink, ButtonLink}

\* anchors of the long paragraphs: a javascript: anchor inside the first
\* paragraph, and an anchor of a second paragraph
ScriptInline == Anchor("javascript:void(0)", "", "", FALSE, "Menu", "", FALSE, <<"P">>, 1)
OtherPara    == Anchor("/guide", "", "", FALSE, "Read the guide", "", FALSE, <<"P">>, 2)

DensityPool == {ReadGuide, BuyText, ScriptInline, OtherPara, FullGuide}

AllAnchors == AnchorPool \cup DensityPool

\* values of the #site-domain field
Domains == {"", "example.org"}

WordChars == "ABCDEFGHIJKLMNOPQRSTUVWXYZabcdefghijklmnopqrstuvwxyz0123456789_"

IsWordChar(c) == FirstOf(WordChars, {c}) # 0

\* \b at the boundary between positions i and i+1 of s
WordBoundary(s, i) ==
    LET before == i >= 1 /\ i <= Len(s) /\ IsWordChar(Char(s, i))
        after  == i + 1 <= Len(s) /\ IsWordChar(Char(s, i + 1))
    IN  before # after

\* /\b(w1|w2|...)\b/.test(s)
HasWord(s, ws) ==
    \E w \in ws : \E i \in 1..Len(s) :
        /\ i + Len(w) - 1 <= Len(s)
        /\ SubSeq(s, i, i + Len(w) - 1) = w
        /\ WordBoundary(s, i - 1)
        /\ WordBoundary(s, i + Len(w) - 1)

\* /^(w1|w2|...)\b/.test(s)
StartsWithWord(s, ws) ==
    \E w \in ws : StartsWith(s, w) /\ WordBoundary(s, Len(w))

CtaClassWords  == {"btn", "button", "cta", "shop-now", "buy-now", "add-to-cart"}
CtaTextPhrases == {"shop", "buy", "order", "add to cart", "get it", "check price",
                   "see price", "view deal", "view product", "learn more"}
CtaParentWords == {"btn", "button", "cta", "shop", "call-to-action"}

isImageLink(a) == a.img /\ trim(a.text) = ""

\* variant: the class rules alone, without the leading-phrase rule on the text
isCtaLinkByClass(a) ==
    \/ HasWord(toLowerCase(a.cls), CtaClassWords)
    \/ HasWord(toLowerCase(a.parentCls), CtaParentWords)

isCtaLink(a) ==
    LET cls == toLowerCase(a.cls)
        txt == trim(toLowerCase(a.text))
    IN  \/ HasWord(cls, CtaClassWords)
        \/ StartsWithWord(txt, CtaTextPhrases)
        \/ HasWord(toLowerCase(a.parentCls), CtaParentWords)

HeadingTags == {"H1", "H2", "H3", "H4", "H5", "H6"}

isInHeading(a) == \E i \in 1..Len(a.anc) : a.anc[i] \in HeadingTags

\* hostname of new URL(href, 'https://placeholder.com'): a relative href
\* resolves against the base
UrlHostname(href) ==
    IF IsAbsoluteForm(href) THEN ParseUrl(href).hostname ELSE "placeholder.com"

UrlThrows(href) == IsAbsoluteForm(href) /\ ~ParseUrl(href).ok

isExternalLink(href, domain) ==
    IF domain = "" THEN FALSE
    ELSE IF href = "" \/ StartsWith(href, "/") \/ StartsWith(href, "#") THEN FALSE
    ELSE IF UrlThrows(href) THEN FALSE
    ELSE ~Includes(UrlHostname(href), toLowerCase(domain))

ContainerTags == {"p", "li", "td", "th", "h1", "h2", "h3", "h4", "h5", "h6",
                  "blockquote", "figcaption", "dd", "dt"}

getParentTag(a) ==
    LET hits == {i \in 1..Len(a.anc) : toLowerCase(a.anc[i]) \in ContainerTags}
    IN  IF hits = {} THEN "div"
        ELSE toLowerCase(a.anc[CHOOSE i \in hits : \A j \in hits : i <= j])

\* The string functions above, evaluated once for each anchor of the pools.
AnchorFacts ==
    [a \in AllAnchors |->
        [normalized |-> normalizeUrl(a.href),
         img        |-> isImageLink(a),
         cta        |-> isCtaLink(a),
         heading    |-> isInHeading(a),
         parentTag  |-> getParentTag(a),
         external   |-> [d \in Domains |-> isExternalLink(a.href, d)],
         text       |-> trim(a.text)]]

-----------------------------------------------------------------------------
(* Analysis engine                                                         *)
(* A link is the record analyzeHtml builds, without its context and rel     *)
(* fields (display only).  A group lists its links by id: the source's      *)
(* group.links holds the very objects of state.links.  order is the         *)
(* insertion order of the keys of groups.                                   *)

DensityMin == 5

Warning(type, subject, count) == [type |-> type, subject |-> subject, count |-> count]

NewGroup(key, href) ==
    [normalizedHref |-> key, originalHref |-> href, links |-> <<>>,
     imageCount |-> 0, textCount |-> 0, ctaCount |-> 0, inHeadingCount |-> 0]

\* lines 168-190: the link record of an anchor with a valid href; f holds the
\* anchor's facts
BuildLink(a, f, id, rawIndex, domain) ==
    [id |-> id,
     rawIndex |-> rawIndex,
     href |-> a.href,
     normalizedHref |-> f.normalized[1],
     anchorText |-> IF f.img THEN "[image]"
                    ELSE IF f.text # "" THEN f.text
                    ELSE "[empty]",
     isImageLink |-> f.img,
     isCtaLink |-> ~f.img /\ f.cta,
     isInHeading |-> f.heading,
     isExternal |-> f.external[domain],
     parentTag |-> f.parentTag,
     keep |-> TRUE]

\* variant: groups keyed by the href as written
GroupKeyRaw(link) == link.href

GroupKey(link) == link.normalizedHref

\* lines 205-210: the link joins its group
AddToGroup(g, link) ==
    [g EXCEPT
        !.links = Append(@, link.id),
        !.imageCount = IF link.isImageLink THEN @ + 1 ELSE @,
        !.ctaCount = IF ~link.isImageLink /\ link.isCtaLink THEN @ + 1 ELSE @,
        !.textCount = IF ~link.isImageLink /\ ~link.isCtaLink THEN @ + 1 ELSE @,
        !.inHeadingCount = IF link.isInHeading THEN @ + 1 ELSE @]

\* lines 192-210: the link is pushed and upserted into the group of its key
PushLink(acc, link) ==
    [links    |-> Append(acc.links, link),
     groups   |-> [k \in DOMAIN acc.groups \cup {GroupKey(link)} |->
                      IF k = GroupKey(link)
                      THEN AddToGroup(IF k \in DOMAIN acc.groups THEN acc.groups[k]
                                      ELSE NewGroup(k, link.href), link)
                      ELSE acc.groups[k]],
     warnings |-> acc.warnings,
     order    |-> IF GroupKey(link) \in DOMAIN acc.groups THEN acc.order
                  ELSE Append(acc.order, GroupKey(link))]

\* variant: an anchor whose href has no key is skipped without a warning
AnalyzeAnchorSilent(acc, a, f, rawIndex, domain) ==
    IF f.normalized = NoKey
    THEN acc
    ELSE PushLink(acc, BuildLink(a, f, Len(acc.links), rawIndex, domain))

\* the body of allAnchors.forEach (lines 157-211); f holds the anchor's facts
AnalyzeAnchor(acc, a, f, rawIndex, domain) ==
    IF f.normalized = NoKey
    THEN IF a.href # "" /\ a.href # "#"
         THEN [acc EXCEPT !.warnings = Append(@, Warning("broken", a.href, 0))]
         ELSE acc
    ELSE PushLink(acc, BuildLink(a, f, Len(acc.links), rawIndex, domain))

RECURSIVE AnalyzeAnchors(_, _, _, _)
AnalyzeAnchors(acc, html, i, domain) ==
    IF i > Len(html) THEN acc
    ELSE AnalyzeAnchors(AnalyzeAnchor(acc, html[i], AnchorFacts[html[i]], i - 1, domain),
                        html, i + 1, domain)

\* lines 214-221, for one group
GroupWarnings(url, group) ==
    (IF group.textCount = 0 /\ group.ctaCount = 0 /\ group.imageCount > 0
     THEN <<Warning("image-only", url, group.imageCount)>> ELSE <<>>)
    \o
    (IF group.inHeadingCount > 0
     THEN <<Warning("heading", url, group.inHeadingCount)>> ELSE <<>>)

RECURSIVE EdgeWarnings(_, _, _)
EdgeWarnings(grps, order, i) ==
    IF i > Len(order) THEN <<>>
    ELSE GroupWarnings(order[i], grps[order[i]]) \o EdgeWarnings(grps, order, i + 1)

\* lines 224-229: the <p> elements in document order, each with the number
\* of a[href] elements inside it
Paragraphs(html) == {html[i].para : i \in 1..Len(html)} \ {0}

\* variant: only the anchors whose href has a key are counted
ParagraphCountValid(html, p) ==
    Cardinality({i \in 1..Len(html) : html[i].para = p
                                        /\ normalizeUrl(html[i].href) # NoKey})

ParagraphCount(html, p) == Cardinality({i \in 1..Len(html) : html[i].para = p})

RECURSIVE DensityWarnings(_, _)
DensityWarnings(html, ps) ==
    IF ps = {} THEN <<>>
    ELSE LET p == CHOOSE q \in ps : \A r \in ps : q <= r
             count == ParagraphCount(html, p)
         IN  (IF count >= DensityMin THEN <<Warning("density", numToString(p), count)>>
              ELSE <<>>)
             \o DensityWarnings(html, ps \ {p})

\* links.filter(l => l[flag]).length
CountLinks(ls, flag) == Cardinality({i \in 1..Len(ls) : ls[i][flag]})

\* lines 231-238
Stats(ls, grps) ==
    LET totalLinks == Len(ls)
        imageLinks == CountLinks(ls, "isImageLink")
        ctaLinks   == CountLinks(ls, "isCtaLink")
    IN  [totalLinks |-> totalLinks,
         uniqueUrls |-> Cardinality(DOMAIN grps),
         imageLinks |-> imageLinks,
         ctaLinks |-> ctaLinks,
         textLinks |-> totalLinks - imageLinks - ctaLinks,
         externalLinks |-> CountLinks(ls, "isExternal")]

\* lines 214-241: what analyzeHtml returns once the forEach pass is over
AnalysisResult(pass, html) ==
    [links    |-> pass.links,
     groups   |-> pass.groups,
     warnings |-> pass.warnings
                  \o EdgeWarnings(pass.groups, pass.order, 1)
                  \o DensityWarnings(html, Paragraphs(html)),
     stats    |-> Stats(pass.links, pass.groups)]

analyzeHtml(html, domain) ==
    AnalysisResult(AnalyzeAnchors([links |-> <<>>, groups |-> <<>>, warnings |-> <<>>,
                                   order |-> <<>>], html, 1, domain), html)

-----------------------------------------------------------------------------
(* Auto-strip                                                              *)

IsTextLink(l) == ~l.isImageLink /\ ~l.isCtaLink

\* the link object with the given id
ById(ls, id) == ls[id + 1]

\* l.anchorText.toLowerCase().trim(), evaluated once for each anchor text
\* the analysis can produce
AnchorTexts ==
    {"[image]", "[empty]"} \cup {AnchorFacts[a].text : a \in AllAnchors}

ComparableText == [t \in AnchorTexts |-> trim(toLowerCase(t))]

\* variant: the anchor texts are compared as written
hasDifferentAnchorsRaw(textLinks) ==
    IF Len(textLinks) < 2 THEN FALSE
    ELSE Cardinality({textLinks[i].anchorText : i \in 1..Len(textLinks)}) > 1

hasDifferentAnchors(textLinks) ==
    IF Len(textLinks) < 2 THEN FALSE
    ELSE Cardinality({ComparableText[textLinks[i].anchorText] :
                         i \in 1..Len(textLinks)}) > 1

\* variant: a text link is kept only if it was kept before and no earlier
\* text link of the group was
GroupKeepFromFlags(ls, group, j) ==
    LET members   == [n \in 1..Len(group.links) |-> ById(ls, group.links[n])]
        textLinks == SelectSeq(members, IsTextLink)
    IN  IF Len(textLinks) = 2 /\ hasDifferentAnchors(textLinks)
        THEN TRUE
        ELSE \/ ~IsTextLink(members[j])
             \/ /\ members[j].keep
                /\ \A n \in 1..(j - 1) : IsTextLink(members[n]) => ~members[n].keep

\* lines 253-273 for one group: the keep flag the loop body assigns to the
\* j-th member of group.links
GroupKeep(ls, group, j) ==
    LET members   == [n \in 1..Len(group.links) |-> ById(ls, group.links[n])]
        textLinks == SelectSeq(members, IsTextLink)
    IN  IF Len(textLinks) = 2 /\ hasDifferentAnchors(textLinks)
        THEN TRUE
        ELSE \/ ~IsTextLink(members[j])
             \/ \A n \in 1..(j - 1) : ~IsTextLink(members[n])

\* the link list after applyAutoStrip ran over every group
applyAutoStrip(ls, grps) ==
    [i \in 1..Len(ls) |->
        LET at == {<<k, j>> \in UNION {{k} \X (1..Len(grps[k].links)) : k \in DOMAIN grps} :
                      grps[k].links[j] = ls[i].id}
        IN  IF at = {} THEN ls[i]
            ELSE LET kj == CHOOSE x \in at : TRUE
                 IN  [ls[i] EXCEPT !.keep = GroupKeep(ls, grps[kj[1]], kj[2])]]

applyKeepAll(ls) == [i \in 1..Len(ls) |-> [ls[i] EXCEPT !.keep = TRUE]]

-----------------------------------------------------------------------------
(* HTML generation                                                         *)
(* A generated document is the sequence of its nodes in document order:    *)
(* node i is anchor i of the source document, still an <a> element         *)
(* (wrapped) or replaced in place by its children.                         *)

\* lines 289-297: for each anchor the 1-based position in state.links of the
\* link the callback is called with, 0 when the callback is not called
RECURSIVE PairAnchors(_, _, _, _)
PairAnchors(html, ls, i, linkIdx) ==
    IF i > Len(html) THEN <<>>
    ELSE IF AnchorFacts[html[i]].normalized = NoKey
         THEN <<0>> \o PairAnchors(html, ls, i + 1, linkIdx)
         ELSE IF linkIdx < Len(ls)
              THEN <<linkIdx + 1>> \o PairAnchors(html, ls, i + 1, linkIdx + 1)
              ELSE <<0>> \o PairAnchors(html, ls, i + 1, linkIdx)

processContainer(html, ls) == PairAnchors(html, ls, 1, 0)

\* lines 317-321 on one anchor that is still in the container
StripTargetSelf(a) == IF a.target = "_self" THEN [a EXCEPT !.target = ""] ELSE a

\* variant: the attribute is counted on unwrapped anchors too
CountTargetSelfAll(nodes) ==
    Cardinality({i \in 1..Len(nodes) : nodes[i].a.target = "_self"})

CountTargetSelf(nodes) ==
    Cardinality({i \in 1..Len(nodes) : nodes[i].wrapped /\ nodes[i].a.target = "_self"})

FinishNodes(nodes) ==
    [out |-> [i \in 1..Len(nodes) |->
                 IF nodes[i].wrapped
                 THEN [wrapped |-> TRUE, a |-> StripTargetSelf(nodes[i].a)]
                 ELSE nodes[i]],
     targetSelfCount |-> CountTargetSelf(nodes)]

\* lines 303-314: the callback sets data-srlc-remove on the anchors of removed
\* links, then every element carrying the attribute is unwrapped
RemoveMarked(a, paired, ls) == a.marked \/ (paired # 0 /\ ~ls[paired].keep)

MarkedNodes(html, pairs, ls) ==
    [i \in 1..Len(html) |-> [wrapped |-> ~RemoveMarked(html[i], pairs[i], ls), a |-> html[i]]]

generateCleanHtml(html, ls) == FinishNodes(MarkedNodes(html, processContainer(html, ls), ls))

NoLinkId == -1

\* lines 390-414: the body of the preview document; linkId is the
\* data-link-id attribute, protected the data-srlc-protected attribute
PreviewNode(a, paired, ls) ==
    [a |-> a,
     linkId |-> IF paired # 0 /\ IsTextLink(ls[paired]) THEN ls[paired].id ELSE NoLinkId,
     protected |-> paired # 0 /\ ~IsTextLink(ls[paired])]

PreviewNodes(html, pairs, ls) == [i \in 1..Len(html) |-> PreviewNode(html[i], pairs[i], ls)]

generatePreviewHtml(html, ls) == PreviewNodes(html, processContainer(html, ls), ls)

\* lines 343-363 on one anchor of the clone
PreviewUnwraps(node, ls) ==
    /\ node.linkId # NoLinkId
    /\ \E n \in 1..Len(ls) : ls[n].id = node.linkId /\ ~ls[n].keep

generateCleanHtmlFromPreview(fdoc, ls) ==
    FinishNodes([i \in 1..Len(fdoc) |->
        [wrapped |-> ~PreviewUnwraps(fdoc[i], ls), a |-> fdoc[i].a]])

\* lines 532-538
renderCleanOutput(ready, html, ls, fdoc) ==
    IF ready
    THEN [gen |-> generateCleanHtmlFromPreview(fdoc, ls), by |-> "generateCleanHtmlFromPreview"]
    ELSE [gen |-> generateCleanHtml(html, ls), by |-> "generateCleanHtml"]

-----------------------------------------------------------------------------
(* SpecTpl: the template guard on bounded inputs                           *)

MaxPieces == 4

\* an input is the concatenation of at most MaxPieces of these pieces
TplPieces == {"{{", "}}", "}", "a", "__SRLC_TPL_", "0__", "1"}

RECURSIVE Concat(_)
Concat(ps) == IF ps = <<>> THEN "" ELSE Head(ps) \o Concat(Tail(ps))

TplInputs == {Concat(ps) : ps \in UNION {[1..n -> TplPieces] : n \in 0..MaxPieces}}

NoProt == [html |-> "", placeholders |-> <<>>]

TplIdle == tplPc = "idle" /\ tplIn = "" /\ tplProt = NoProt /\ tplOut = ""

TplProtect ==
    /\ tplPc = "input"
    /\ tplProt' = protectTemplateSyntax(tplIn)
    /\ tplPc' = "protected"
    /\ UNCHANGED <<tplIn, tplOut>>

TplRestore ==
    /\ tplPc = "protected"
    /\ tplOut' = restoreTemplateSyntax(tplProt.html, tplProt.placeholders)
    /\ tplPc' = "restored"
    /\ UNCHANGED <<tplIn, tplProt>>

-----------------------------------------------------------------------------
(* SpecUrl: normalizeUrl on pairs of hrefs                                 *)

\* an href is origin \o path \o slash \o query \o frag
UrlOrigins == {"", "http://x.com", "https://x.com", "//x.com", "https://"}
UrlPaths   == {"", "/", "/a", "/A", "a"}
UrlSlashes == {"", "/"}
UrlQueries == {"", "?x=1", "?x=2"}
UrlFrags   == {"", "#y"}

UrlInputs ==
    {c \in [origin : UrlOrigins, path : UrlPaths, slash : UrlSlashes,
            query : UrlQueries, frag : UrlFrags] :
        c.origin # "" => (c.path = "" \/ StartsWith(c.path, "/"))}

HrefOf(c) == c.origin \o c.path \o c.slash \o c.query \o c.frag

NoUrl == [origin |-> "", path |-> "", slash |-> "", query |-> "", frag |-> ""]

UrlIdle == urlPc = "idle" /\ urlA = NoUrl /\ urlB = NoUrl /\ keyA = NoKey /\ keyB = NoKey

UrlNormalize ==
    /\ urlPc = "input"
    /\ keyA' = normalizeUrl(HrefOf(urlA))
    /\ keyB' = normalizeUrl(HrefOf(urlB))
    /\ urlPc' = "done"
    /\ UNCHANGED <<urlA, urlB>>

-----------------------------------------------------------------------------
(* The session                                                             *)

MaxAnchors == 3

Documents == UNION {[1..n -> AnchorPool] : n \in 1..MaxAnchors}

Articles == [html : Documents, domain : Domains]

EmptyState ==
    /\ originalHtml = <<>>
    /\ links = <<>>
    /\ groups = <<>>
    /\ warnings = <<>>
    /\ stats = <<>>
    /\ targetSelfCount = 0
    /\ previewReady = FALSE

BlankFrame == [doc |-> <<>>, loaded |-> TRUE]

\* the value of #html-input: its anchors, and its text when it has none
NoInput == [text |-> "", anchors |-> <<>>]

\* variant: the value is tested as typed
InputIsEmptyRaw(inp) == inp.anchors = <<>> /\ inp.text = ""

\* lines 658-659: the trimmed value is the empty string
InputIsEmpty(inp) == inp.anchors = <<>> /\ trim(inp.text) = ""

KeepFlags(ls) == [i \in 1..Len(ls) |-> ls[i].keep]

RemovedCount(ls) == Cardinality({i \in 1..Len(ls) : ~ls[i].keep})

AppIdle ==
    /\ article = [html |-> <<>>, domain |-> ""]
    /\ input = NoInput
    /\ EmptyState
    /\ frame = BlankFrame
    /\ cleanOutput = <<>>
    /\ cleanBy = "none"
    /\ lastOp = "none"
    /\ firstStrip = <<>>
    /\ beforeStrip = <<>>

\* the user pastes the article into the empty textarea
Paste ==
    /\ input = NoInput
    /\ input' = [text |-> "", anchors |-> article.html]
    /\ UNCHANGED <<article, stateVars, frame, cleanOutput, cleanBy, histVars>>

\* lines 522-530: the frame starts loading the preview document of the state
\* just written
renderPreview ==
    /\ previewReady' = FALSE
    /\ frame' = [doc |-> generatePreviewHtml(originalHtml', links'), loaded |-> FALSE]

SetCleanOutput(r) ==
    /\ cleanOutput' = r.gen.out
    /\ targetSelfCount' = r.gen.targetSelfCount
    /\ cleanBy' = r.by

\* lines 605-610: updateUI renders the preview, which clears previewReady,
\* and then the clean output
updateUI ==
    /\ renderPreview
    /\ SetCleanOutput(renderCleanOutput(previewReady', originalHtml', links', frame'.doc))

\* lines 621-626, and the tail of toggleLink and switchTab: only the clean
\* output is rendered again
updateUIPreservingPreview ==
    /\ UNCHANGED <<previewReady, frame>>
    /\ SetCleanOutput(renderCleanOutput(previewReady', originalHtml', links', frame'.doc))

\* history: the handler op ran
Ran(op) ==
    /\ lastOp' = op
    /\ beforeStrip' = <<>>
    /\ UNCHANGED firstStrip

\* lines 661-670: state takes the analysis result and applyAutoStrip() runs on it
StripState(result) ==
    /\ originalHtml' = input.anchors
    /\ links' = applyAutoStrip(result.links, result.groups)
    /\ groups' = result.groups
    /\ warnings' = result.warnings
    /\ stats' = result.stats

\* lines 658-659: showToast() and return; nothing of the session is written
handleAnalyze ==
    IF InputIsEmpty(input)
    THEN /\ Ran("rejected")
         /\ UNCHANGED <<article, input, stateVars, frame, cleanOutput, cleanBy>>
    ELSE /\ StripState(analyzeHtml(input.anchors, article.domain))
         /\ updateUI
         /\ lastOp' = "handleAnalyze"
         /\ firstStrip' = KeepFlags(links')
         /\ beforeStrip' = <<>>
         /\ UNCHANGED <<article, input>>

\* the tail of handleAutoStrip and handleKeepAll: lines 713-718 and 723-728
AfterBulk ==
    /\ UNCHANGED <<article, input, originalHtml, groups, warnings, stats>>
    /\ IF previewReady THEN updateUIPreservingPreview ELSE updateUI

handleAutoStrip ==
    /\ links' = applyAutoStrip(links, groups)
    /\ AfterBulk
    /\ lastOp' = "handleAutoStrip"
    /\ beforeStrip' = KeepFlags(links)
    /\ UNCHANGED firstStrip

handleKeepAll ==
    /\ links' = applyKeepAll(links)
    /\ AfterBulk
    /\ Ran("handleKeepAll")

\* variant: only a missing link is refused
ToggleRefusedMissing(ls, id) == \A n \in 1..Len(ls) : ls[n].id # id

\* line 799: the link is missing or protected
ToggleRefused(ls, id) ==
    \/ \A n \in 1..Len(ls) : ls[n].id # id
    \/ \E n \in 1..Len(ls) : ls[n].id = id /\ (ls[n].isImageLink \/ ls[n].isCtaLink)

\* variant: every link to the destination of the link is flipped
FlipKeepOfGroup(ls, id) ==
    LET m == CHOOSE m \in 1..Len(ls) : ls[m].id = id
    IN  [n \in 1..Len(ls) |->
            IF ls[n].normalizedHref = ls[m].normalizedHref
            THEN [ls[n] EXCEPT !.keep = ~@] ELSE ls[n]]

\* lines 798 and 800: link.keep = !link.keep on the link found by id
FlipKeep(ls, id) ==
    [ls EXCEPT ![CHOOSE m \in 1..Len(ls) : ls[m].id = id].keep = ~@]

toggleLink(id) ==
    IF ToggleRefused(links, id)
    THEN UNCHANGED appVars
    ELSE /\ links' = FlipKeep(links, id)
         /\ UNCHANGED <<article, input, originalHtml, groups, warnings, stats>>
         /\ updateUIPreservingPreview
         /\ Ran("toggleLink")

\* switchTab('clean'): line 820
switchTab ==
    /\ UNCHANGED <<article, input, originalHtml, links, groups, warnings, stats>>
    /\ updateUIPreservingPreview
    /\ Ran("switchTab")

\* lines 733 and 752: state is replaced by a fresh object
ResetState ==
    /\ originalHtml' = <<>>
    /\ links' = <<>>
    /\ groups' = <<>>
    /\ warnings' = <<>>
    /\ stats' = <<>>
    /\ targetSelfCount' = 0
    /\ previewReady' = FALSE
    /\ input' = NoInput
    /\ firstStrip' = <<>>
    /\ beforeStrip' = <<>>
    /\ UNCHANGED <<article, frame, cleanOutput, cleanBy>>

handleReset == ResetState /\ lastOp' = "handleReset"

handleNextArticle == ResetState /\ lastOp' = "handleNextArticle"

\* the load event of the preview frame: the listener of line 526
onLoad ==
    /\ ~frame.loaded
    /\ frame' = [frame EXCEPT !.loaded = TRUE]
    /\ previewReady' = TRUE
    /\ UNCHANGED <<article, input, originalHtml, links, groups, warnings, stats,
                   targetSelfCount, cleanOutput, cleanBy, histVars>>

Init ==
    /\ article \in Articles
    /\ input = NoInput
    /\ EmptyState
    /\ frame = BlankFrame
    /\ cleanOutput = <<>>
    /\ cleanBy = "none"
    /\ lastOp = "none"
    /\ firstStrip = <<>>
    /\ beforeStrip = <<>>
    /\ TplIdle
    /\ UrlIdle

Next ==
    \/ Paste /\ UNCHANGED <<tplVars, urlVars>>
    \/ handleAnalyze /\ UNCHANGED <<tplVars, urlVars>>
    \/ handleAutoStrip /\ UNCHANGED <<tplVars, urlVars>>
    \/ handleKeepAll /\ UNCHANGED <<tplVars, urlVars>>
    \/ \E id \in 0..MaxAnchors : toggleLink(id) /\ UNCHANGED <<tplVars, urlVars>>
    \/ switchTab /\ UNCHANGED <<tplVars, urlVars>>
    \/ handleReset /\ UNCHANGED <<tplVars, urlVars>>
    \/ handleNextArticle /\ UNCHANGED <<tplVars, urlVars>>
    \/ onLoad /\ UNCHANGED <<tplVars, urlVars>>

Spec == Init /\ [][Next]_vars

\* Sessions in which the user also blanks the textarea: short articles.
MaxShortAnchors == 2

ShortDocuments == UNION {[1..n -> AnchorPool] : n \in 1..MaxShortAnchors}

BlankTexts == {"", " \n"}

\* the user replaces the content of the textarea by nothing or by white space
ClearInput ==
    /\ \E t \in BlankTexts :
          /\ input # [text |-> t, anchors |-> <<>>]
          /\ input' = [text |-> t, anchors |-> <<>>]
    /\ UNCHANGED <<article, stateVars, frame, cleanOutput, cleanBy, histVars>>

InitReject ==
    /\ article \in [html : ShortDocuments, domain : {""}]
    /\ input = NoInput
    /\ EmptyState
    /\ frame = BlankFrame
    /\ cleanOutput = <<>>
    /\ cleanBy = "none"
    /\ lastOp = "none"
    /\ firstStrip = <<>>
    /\ beforeStrip = <<>>
    /\ TplIdle
    /\ UrlIdle

NextReject ==
    \/ Next
    \/ ClearInput /\ UNCHANGED <<tplVars, urlVars>>

SpecReject == InitReject /\ [][NextReject]_vars

\* Articles with long paragraphs, pasted and analysed.
MaxDensityAnchors == 6

DensityDocuments == UNION {[1..n -> DensityPool] : n \in 1..MaxDensityAnchors}

InitDensity ==
    /\ article \in [html : DensityDocuments, domain : {""}]
    /\ input = NoInput
    /\ EmptyState
    /\ frame = BlankFrame
    /\ cleanOutput = <<>>
    /\ cleanBy = "none"
    /\ lastOp = "none"
    /\ firstStrip = <<>>
    /\ beforeStrip = <<>>
    /\ TplIdle
    /\ UrlIdle

NextDensity ==
    \/ Paste /\ UNCHANGED <<tplVars, urlVars>>
    \/ handleAnalyze /\ UNCHANGED <<tplVars, urlVars>>

SpecDensity == InitDensity /\ [][NextDensity]_vars


InitTpl ==
    /\ tplPc = "input" /\ tplIn \in TplInputs /\ tplProt = NoProt /\ tplOut = ""
    /\ UrlIdle
    /\ AppIdle

NextTpl ==
    \/ TplProtect /\ UNCHANGED <<urlVars, appVars>>
    \/ TplRestore /\ UNCHANGED <<urlVars, appVars>>

SpecTpl == InitTpl /\ [][NextTpl]_vars

InitUrl ==
    /\ urlPc = "input" /\ urlA \in UrlInputs /\ urlB \in UrlInputs
    /\ keyA = NoKey /\ keyB = NoKey
    /\ TplIdle
    /\ AppIdle

NextUrl == UrlNormalize /\ UNCHANGED <<tplVars, appVars>>

SpecUrl == InitUrl /\ [][NextUrl]_vars

-----------------------------------------------------------------------------
(* Properties                                                              *)

\* the handlers whose last step ran applyAutoStrip
Stripped == lastOp \in {"handleAnalyze", "handleAutoStrip"}

\* the links of a group, in the order of group.links
Members(g) == [n \in 1..Len(g.links) |-> links[g.links[n] + 1]]

\* T: the members of a group that are neither image nor CTA
TextMembers(g) == SelectSeq(Members(g), LAMBDA l : ~l.isImageLink /\ ~l.isCtaLink)

SameText(l, m) == toLowerCase(trim(l.anchorText)) = toLowerCase(trim(m.anchorText))

\* C1: after applyAutoStrip, in every group, the text links T are both kept
\* when T has exactly two members whose trimmed, lower-cased texts differ;
\* otherwise the first member of T is kept and every later one is removed.
C1_AutoStripPolicy ==
    Stripped =>
        \A k \in DOMAIN groups :
            LET T == TextMembers(groups[k])
            IN  IF Len(T) = 2 /\ ~SameText(T[1], T[2])
                THEN T[1].keep /\ T[2].keep
                ELSE \A n \in 1..Len(T) : T[n].keep <=> (n = 1)

\* handleAutoStrip ran on a group of two text links whose texts differ, and
\* kept both
C1_Witness ==
    /\ lastOp = "handleAutoStrip"
    /\ \E k \in DOMAIN groups :
           /\ Len(TextMembers(groups[k])) = 2
           /\ ~SameText(TextMembers(groups[k])[1], TextMembers(groups[k])[2])
           /\ TextMembers(groups[k])[1].keep
           /\ TextMembers(groups[k])[2].keep

\* C2: every image or CTA link has keep = TRUE in every state of the session,
\* whatever handleAutoStrip, handleKeepAll and toggleLink calls were made.
C2_ProtectedKept ==
    \A i \in 1..Len(links) : (links[i].isImageLink \/ links[i].isCtaLink) => links[i].keep

\* a toggle went through on a text link while an image link and a CTA link
\* are in the inventory
C2_Witness ==
    /\ lastOp = "toggleLink"
    /\ \E i \in 1..Len(links) : links[i].isImageLink /\ links[i].keep
    /\ \E i \in 1..Len(links) : links[i].isCtaLink /\ links[i].keep
    /\ \E i \in 1..Len(links) : ~links[i].keep

\* a handler that rendered the clean output ran last, and generateCleanHtml
\* wrote it
CleanGenerated ==
    /\ lastOp \in {"handleAnalyze", "handleAutoStrip", "handleKeepAll", "toggleLink",
                   "switchTab"}
    /\ cleanBy = "generateCleanHtml"

\* C3 as claimed: in the output of generateCleanHtml the anchors unwrapped are
\* exactly the anchors the links with keep = FALSE were built from, and every
\* other anchor remains.
C3_UnwrapsExactlyRemoved ==
    CleanGenerated =>
        /\ Len(cleanOutput) = Len(originalHtml)
        /\ \A i \in 1..Len(cleanOutput) :
               ~cleanOutput[i].wrapped <=>
                   \E n \in 1..Len(links) : links[n].rawIndex = i - 1 /\ ~links[n].keep

\* C4 as claimed: for every input h, restoreTemplateSyntax applied to the
\* result of protectTemplateSyntax(h) gives h back.
C4_RoundTrip == tplPc = "restored" => tplOut = tplIn

\* the round trip does hold for the inputs that do not contain the token prefix
TplRoundTripNoToken ==
    (tplPc = "restored" /\ ~Includes(tplIn, TokenPrefix)) => tplOut = tplIn

\* C5: handleAutoStrip leaves the keep flags the first auto-strip of the
\* analysis left, whatever the flags were before it ran (after toggles, after
\* handleKeepAll, or after an auto-strip).
C5_SameAsFirstStrip == lastOp = "handleAutoStrip" => KeepFlags(links) = firstStrip

\* handleAutoStrip ran on flags that differed from the first strip's, and
\* the result removes a link
C5_Witness ==
    /\ lastOp = "handleAutoStrip"
    /\ beforeStrip # firstStrip
    /\ \E i \in 1..Len(links) : ~links[i].keep

\* C6: every link is a member of exactly one group, the group keyed by its
\* normalizedHref, once; the groups hold no other ids; and the members of a
\* group are in increasing id order.
C6_Grouping ==
    /\ \A i \in 1..Len(links) :
           /\ links[i].id = i - 1
           /\ links[i].normalizedHref \in DOMAIN groups
           /\ \A k \in DOMAIN groups :
                  Cardinality({n \in 1..Len(groups[k].links) :
                                  groups[k].links[n] = links[i].id})
                      = IF k = links[i].normalizedHref THEN 1 ELSE 0
    /\ \A k \in DOMAIN groups :
           /\ groups[k].links # <<>>
           /\ \A n \in 1..Len(groups[k].links) : groups[k].links[n] \in 0..(Len(links) - 1)
           /\ \A m, n \in 1..Len(groups[k].links) :
                  m < n => groups[k].links[m] < groups[k].links[n]

\* the analysis ran on a document it splits into two groups, one of them
\* with two links whose hrefs are written differently
C6_Witness ==
    /\ lastOp = "handleAnalyze"
    /\ Cardinality(DOMAIN groups) = 2
    /\ \E k \in DOMAIN groups :
           /\ Len(groups[k].links) = 2
           /\ links[groups[k].links[1] + 1].href # links[groups[k].links[2] + 1].href

\* Scenario A: three anchors to /product, two with the text "Buy the Widget"
\* and one wrapping an image, analysed
ScenarioA ==
    /\ lastOp = "handleAnalyze"
    /\ Len(originalHtml) = 3
    /\ \A i \in 1..3 : originalHtml[i] \in {BuyText, ImageLink}
    /\ Cardinality({i \in 1..3 : originalHtml[i] = ImageLink}) = 1

\* the positions of the two text anchors of scenario A, and the later one
ScenarioAText == {i \in 1..3 : originalHtml[i] = BuyText}
ScenarioASecond == CHOOSE i \in ScenarioAText : \A j \in ScenarioAText : j <= i

\* C7 as claimed: in scenario A the image link and the first text link are
\* kept, the second text link is removed and unwrapped in the output.
C7_AsClaimed ==
    ScenarioA =>
        /\ \A i \in 1..3 : links[i].keep <=> (i # ScenarioASecond)
        /\ ~cleanOutput[ScenarioASecond].wrapped

\* C7: in scenario A the two "Buy the Widget" links are CTA links (the text
\* starts with "buy"), so all three links are kept and the output still holds
\* the three anchors.
C7_ScenarioA ==
    ScenarioA =>
        /\ \A i \in 1..3 : links[i].keep
        /\ \A i \in ScenarioAText : links[i].isCtaLink /\ ~links[i].isImageLink
        /\ \A i \in 1..3 : cleanOutput[i].wrapped

\* scenario A was analysed: two CTA links and an image link, all still anchors
C7_Witness ==
    /\ ScenarioA
    /\ originalHtml = <<BuyText, BuyText, ImageLink>>
    /\ stats.ctaLinks = 2
    /\ stats.imageLinks = 1
    /\ \A i \in 1..3 : cleanOutput[i].wrapped

\* the origins that name the host x.com, or none
HostOrigins == {"", "http://x.com", "https://x.com", "//x.com"}

\* both hrefs were normalized to a key and have the same path part
SamePath ==
    /\ urlPc = "done"
    /\ urlA.origin \in HostOrigins /\ urlB.origin \in HostOrigins
    /\ urlA.path = urlB.path
    /\ keyA # NoKey /\ keyB # NoKey

\* the components in which the two hrefs differ
Differences == {f \in {"origin", "slash", "query", "frag"} : urlA[f] # urlB[f]}

C9Hrefs == {"https://x.com/a/", "/a", "/a?x=1#y", "a/"}

\* C9 as claimed: the four hrefs get one key.
C9_AllSameKey ==
    (urlPc = "done" /\ HrefOf(urlA) \in C9Hrefs /\ HrefOf(urlB) \in C9Hrefs) => keyA = keyB

C9Key(href) == IF href = "a/" THEN <<"a">> ELSE <<"/a">>

\* C9: "https://x.com/a/", "/a" and "/a?x=1#y" get the key "/a"; "a/" gets
\* the key "a".
C9_Keys ==
    urlPc = "done" =>
        /\ HrefOf(urlA) \in C9Hrefs => keyA = C9Key(HrefOf(urlA))
        /\ HrefOf(urlB) \in C9Hrefs => keyB = C9Key(HrefOf(urlB))

\* "a/" got the key "a" and "/a?x=1#y" the key "/a"
C9_Witness ==
    /\ urlPc = "done"
    /\ HrefOf(urlA) = "a/" /\ keyA = <<"a">>
    /\ HrefOf(urlB) = "/a?x=1#y" /\ keyB = <<"/a">>

\* the anchors of the original document that carry target="_self"
TargetSelfAnchors == {i \in 1..Len(originalHtml) : originalHtml[i].target = "_self"}

NoTargetSelfLeft ==
    \A i \in 1..Len(cleanOutput) : cleanOutput[i].wrapped => cleanOutput[i].a.target # "_self"

\* C10 as claimed: after generateCleanHtml no anchor of the output carries
\* target="_self" and targetSelfCount is the number of anchors of the original
\* document that carried it, kept or removed.
C10_AsClaimed ==
    CleanGenerated =>
        /\ NoTargetSelfLeft
        /\ targetSelfCount = Cardinality(TargetSelfAnchors)

\* C10: after generateCleanHtml no anchor of the output carries
\* target="_self", and targetSelfCount is the number of anchors that carried
\* it in the original document and are still anchors in the output.
C10_CountsRemaining ==
    CleanGenerated =>
        /\ NoTargetSelfLeft
        /\ targetSelfCount = Cardinality({i \in TargetSelfAnchors : cleanOutput[i].wrapped})

\* of two anchors that carried the attribute one was unwrapped and one stays
C10_Witness ==
    /\ CleanGenerated
    /\ \E i \in TargetSelfAnchors : ~cleanOutput[i].wrapped
    /\ \E i \in TargetSelfAnchors : cleanOutput[i].wrapped
    /\ targetSelfCount = 1

\* Scenario C: an anchor with href="javascript:void(0)" in the analysed article
ScriptHref == "javascript:void(0)"

ScriptAt == {i \in 1..Len(originalHtml) : originalHtml[i].href = ScriptHref}

WithoutScript == SelectSeq(originalHtml, LAMBDA a : a.href # ScriptHref)

ScriptExcluded ==
    \A n \in 1..Len(links) :
        links[n].href # ScriptHref /\ (links[n].rawIndex + 1) \notin ScriptAt

\* every counter of stats is what it is for the article without the anchor
ScriptNotCounted ==
    /\ stats.totalLinks = Len(originalHtml) - Cardinality(ScriptAt)
    /\ stats = analyzeHtml(WithoutScript, article.domain).stats

AboutScript(w) == w.subject = ScriptHref

InParagraph(p) == {i \in 1..Len(originalHtml) : originalHtml[i].para = p}

ValidInParagraph(p) == {n \in 1..Len(links) : (links[n].rawIndex + 1) \in InParagraph(p)}

DensityWarningsFor(p) ==
    SelectSeq(warnings, LAMBDA w : w.type = "density" /\ w.subject = numToString(p))

AnalysedParagraphs == {originalHtml[i].para : i \in 1..Len(originalHtml)} \ {0}

\* C12 as stated: a paragraph has exactly one density warning when it holds
\* 5 or more anchors with a valid href, and none when it holds fewer.
C12_AsClaimed ==
    \A p \in AnalysedParagraphs :
        Len(DensityWarningsFor(p))
          = IF Cardinality(ValidInParagraph(p)) >= 5 THEN 1 ELSE 0

\* C12, amended: a paragraph has exactly one density warning when it holds 5
\* or more anchors with an href attribute, whether or not the href is valid,
\* and none when it holds fewer; the warning carries that number, and no
\* other density warning exists, however the anchors are grouped.
C12_Density ==
    /\ \A p \in AnalysedParagraphs :
          IF Cardinality(InParagraph(p)) >= 5
          THEN DensityWarningsFor(p)
                 = <<Warning("density", numToString(p), Cardinality(InParagraph(p)))>>
          ELSE DensityWarningsFor(p) = <<>>
    /\ \A n \in 1..Len(warnings) :
          warnings[n].type = "density" =>
              \E p \in AnalysedParagraphs : warnings[n].subject = numToString(p)

\* a paragraph of five anchors to two destinations, one of them not valid,
\* beside a short paragraph
C12_Witness ==
    /\ lastOp = "handleAnalyze"
    /\ Len(DensityWarningsFor(1)) = 1
    /\ Cardinality(InParagraph(1)) = 5
    /\ Cardinality(ValidInParagraph(1)) = 4
    /\ Cardinality({links[n].normalizedHref : n \in ValidInParagraph(1)}) = 2
    /\ InParagraph(2) # {}

\* C13: a handleAnalyze step taken while the textarea is empty or holds only
\* white space writes nothing of the session (originalHtml, links, groups,
\* warnings, stats, targetSelfCount and previewReady keep their values, so no
\* analysis and no auto-strip ran) and renders nothing.
C13_EmptyInputRejected ==
    [][(input.anchors = <<>> /\ trim(input.text) = "" /\ handleAnalyze)
          => UNCHANGED <<stateVars, input, frame, cleanOutput, cleanBy>>]_vars

\* white space was submitted over a session in which every link is kept
\* although auto-strip had removed one
C13_Witness ==
    /\ lastOp = "rejected"
    /\ input = [text |-> " \n", anchors |-> <<>>]
    /\ links # <<>>
    /\ RemovedCount(links) = 0
    /\ \E i \in 1..Len(firstStrip) : ~firstStrip[i]
    /\ previewReady

\* the links ms are the links ls up to their keep flags
SameButKeep(ls, ms) ==
    /\ Len(ms) = Len(ls)
    /\ \A n \in 1..Len(ls) : [ms[n] EXCEPT !.keep = ls[n].keep] = ls[n]

InventoryFrame ==
    /\ SameButKeep(links, links')
    /\ UNCHANGED <<originalHtml, groups, warnings, stats>>

\* C14: a step of handleAutoStrip, handleKeepAll or toggleLink changes
\* nothing in the inventory but keep flags: the sequence of links, every
\* other field of every link, the groups, the warnings and the stats stay.
\* toggleLink(id) flips keep of the text link with that id and of no other
\* link, and changes no keep flag when no link, or a protected link, has
\* the id.
C14_OnlyKeepChanges ==
    [][/\ (lastOp' \in {"handleAutoStrip", "handleKeepAll"}
           /\ (handleAutoStrip \/ handleKeepAll)) => InventoryFrame
       /\ \A id \in 0..MaxAnchors :
             (lastOp' = "toggleLink" /\ toggleLink(id)) =>
                 /\ InventoryFrame
                 /\ \A n \in 1..Len(links) :
                       links'[n].keep = IF links[n].id = id /\ IsTextLink(links[n])
                                        THEN ~links[n].keep
                                        ELSE links[n].keep]_vars

\* a toggle has removed the first of two links to one destination, after
\* auto-strip had removed the second and a toggle had put it back
C14_Witness ==
    /\ lastOp = "toggleLink"
    /\ Len(links) = 2
    /\ links[1].normalizedHref = links[2].normalizedHref
    /\ firstStrip = <<TRUE, FALSE>>
    /\ KeepFlags(links) = <<FALSE, TRUE>>
    /\ stats.totalLinks = 2

\* the article the document of the preview frame was generated from
PreviewArticle == [i \in 1..Len(frame.doc) |-> frame.doc[i].a]

PreviewOfSession ==
    /\ frame.loaded
    /\ PreviewArticle = originalHtml

\* C15: previewReady is true only when the preview frame has finished
\* loading the preview of the article of the current session, so that a
\* clean output taken from the preview is taken from the preview of that
\* article.
C15_ReadyMeansLoaded ==
    /\ previewReady => PreviewOfSession
    /\ (lastOp \in {"handleAutoStrip", "handleKeepAll", "toggleLink", "switchTab"}
        /\ cleanBy = "generateCleanHtmlFromPreview") => PreviewOfSession

\* the preview of the analysed article is loaded and the session knows it
PreviewLoaded ==
    /\ originalHtml # <<>>
    /\ previewReady
    /\ PreviewOfSession

\* C16: once the preview of the analysed article is loaded, whatever the
\* keep flags have become since it was rendered, generateCleanHtmlFromPreview
\* and generateCleanHtml unwrap the same anchors, leave the same anchors in
\* place and find the same targetSelfCount.
C16_GeneratorsAgree ==
    PreviewLoaded =>
        generateCleanHtmlFromPreview(frame.doc, links) = generateCleanHtml(originalHtml, links)

\* the two generators agree on the articles in which no anchor carries the
\* data-srlc-remove attribute when pasted
GeneratorsAgreeUnmarked ==
    (PreviewLoaded /\ \A i \in 1..Len(originalHtml) : ~originalHtml[i].marked) =>
        generateCleanHtmlFromPreview(frame.doc, links) = generateCleanHtml(originalHtml, links)

=============================================================================
